---- MODULE Spec2Model ----
(***************************************************************************)
(* A model of rustty's terminal cell grid, src/core/cellbuffer.rs:         *)
(* Color, Attr, Cell and the row-major CellBuffer with its coordinate      *)
(* access, flat view, clear and content-preserving resize.                 *)
(*                                                                         *)
(* usize arithmetic is modelled exactly: the dimensions the model draws    *)
(* are far below the point where cols * rows leaves the range of usize.    *)
(***************************************************************************)
EXTENDS Integers, Sequences, FiniteSets, TLC

\* Largest number of columns / rows drawn for new and resize; coordinates
\* are drawn from 0..MaxDim as well, so that x = cols is an out-of-range x.
MaxDim == 3

\* Largest cols * rows drawn for new and resize; flat offsets are drawn from
\* 0..MaxCells, so that the offset one past the end is drawn too.
MaxCells == 6

\* Largest value of a u8 (the payload of Color::Byte).
U8Max == 255

Min(a, b) == IF a < b THEN a ELSE b

\* usize::saturating_sub
SaturatingSub(a, b) == IF a > b THEN a - b ELSE 0

(***************************************************************************)
(* Color                                                                   *)
(***************************************************************************)
BasicNames == <<"Black", "Red", "Green", "Yellow", "Blue", "Magenta", "Cyan", "White">>

Basic(t) == [tag |-> t]

Byte(b) == [tag |-> "Byte", b |-> b]

ColorDefault == [tag |-> "Default"]

Color ==
    {Basic(BasicNames[i]) : i \in 1..Len(BasicNames)}
        \cup {Byte(b) : b \in 0..U8Max}
        \cup {ColorDefault}

\* Outcomes of a call: a value, or the panic that aborts it.
Ok(v) == [kind |-> "Ok", val |-> v]

Panic == [kind |-> "Panic"]

NotCalled == [kind |-> "NotCalled"]

\* AsByte with the basic colors numbered from one.
AsByte_OneBased(c) ==
    CASE c.tag = "Black" -> Ok(1)
      [] c.tag = "Red" -> Ok(2)
      [] c.tag = "Green" -> Ok(3)
      [] c.tag = "Yellow" -> Ok(4)
      [] c.tag = "Blue" -> Ok(5)
      [] c.tag = "Magenta" -> Ok(6)
      [] c.tag = "Cyan" -> Ok(7)
      [] c.tag = "White" -> Ok(8)
      [] c.tag = "Byte" -> Ok(c.b)
      [] c.tag = "Default" -> Panic

AsByte(c) ==
    CASE c.tag = "Black" -> Ok(0)
      [] c.tag = "Red" -> Ok(1)
      [] c.tag = "Green" -> Ok(2)
      [] c.tag = "Yellow" -> Ok(3)
      [] c.tag = "Blue" -> Ok(4)
      [] c.tag = "Magenta" -> Ok(5)
      [] c.tag = "Cyan" -> Ok(6)
      [] c.tag = "White" -> Ok(7)
      [] c.tag = "Byte" -> Ok(c.b)
      [] c.tag = "Default" -> Panic

(***************************************************************************)
(* Attr and Cell                                                           *)
(***************************************************************************)
Attr ==
    {"Default", "Bold", "Underline", "BoldUnderline", "Reverse", "BoldReverse",
     "UnderlineReverse", "BoldReverseUnderline"}

CellNew(ch, fg, bg, attrs) == [ch |-> ch, fg |-> fg, bg |-> bg, attrs |-> attrs]

\* The default Cell with a bold attribute.
CellDefault_Bold == CellNew(" ", ColorDefault, ColorDefault, "Bold")

CellDefault == CellNew(" ", ColorDefault, ColorDefault, "Default")

\* The cells callers write and pass as blank.
Cells == {CellDefault, CellNew("x", Basic("Red"), Byte(1), "Bold")}

(***************************************************************************)
(* Vec<Cell> and Option                                                    *)
(***************************************************************************)
Some(v) == [kind |-> "Some", val |-> v]

None == [kind |-> "None"]

Unit == [kind |-> "Unit"]

\* Vec::resize(new_len, value): truncates, or extends with copies of value.
VecResize(v, newlen, value) ==
    IF newlen <= Len(v)
    THEN SubSeq(v, 1, newlen)
    ELSE v \o [i \in 1..(newlen - Len(v)) |-> value]

\* slice::get(offset): the element at a 0-based offset, None past the end.
VecGet(v, offset) == IF offset < Len(v) THEN Some(v[offset + 1]) ELSE None

\* slice::get_mut(offset): a reference to the slot at a 0-based offset.
VecGetMut(v, offset) == IF offset < Len(v) THEN Some(offset) ELSE None

\* *r = value, for a reference r obtained from VecGetMut.
WriteRef(v, r, value) == [v EXCEPT ![r + 1] = value]

\* &v[start..end] is in range when start <= end <= len; it panics otherwise.
SliceOk(v, start, end) == start <= end /\ end <= Len(v)

Slice(v, start, end) == SubSeq(v, start + 1, end)

\* Option::expect
Expect(o) == IF o.kind = "Some" THEN Ok(o.val) ELSE Panic

(***************************************************************************)
(* CellBuffer                                                              *)
(***************************************************************************)
VARIABLES cols, rows, buf, op, color, byte

vars == <<cols, rows, buf, op, color, byte>>

CellBuffer(c, r, b) == [cols |-> c, rows |-> r, buf |-> b]

self == CellBuffer(cols, rows, buf)

New(c, r) ==
    LET len == c * r
    IN  CellBuffer(c, r, VecResize(<<>>, len, CellDefault))

\* Get with an inclusive column bound.
Get_InclusiveCols(s, x, y) ==
    IF x <= s.cols /\ y < s.rows
    THEN LET offset == (s.cols * y) + x IN VecGet(s.buf, offset)
    ELSE None

\* Get with the offset computed from rows instead of cols.
Get_RowsStride(s, x, y) ==
    IF x < s.cols /\ y < s.rows
    THEN LET offset == (s.rows * y) + x IN VecGet(s.buf, offset)
    ELSE None

Get(s, x, y) ==
    IF x < s.cols /\ y < s.rows
    THEN LET offset == (s.cols * y) + x IN VecGet(s.buf, offset)
    ELSE None

\* GetMut with the offset computed from rows instead of cols.
GetMut_RowsStride(s, x, y) ==
    IF x < s.cols /\ y < s.rows
    THEN LET offset == (s.rows * y) + x IN VecGetMut(s.buf, offset)
    ELSE None

GetMut(s, x, y) ==
    IF x < s.cols /\ y < s.rows
    THEN LET offset == (s.cols * y) + x IN VecGetMut(s.buf, offset)
    ELSE None

\* Clear that leaves the last cell as it was.
Clear_SkipLast(s, blank) ==
    CellBuffer(s.cols, s.rows,
               [i \in 1..Len(s.buf) |-> IF i = Len(s.buf) THEN s.buf[i] ELSE blank])

Clear(s, blank) == CellBuffer(s.cols, s.rows, [i \in 1..Len(s.buf) |-> blank])

\* ResizeRows with the copied slice starting at mincols * y.
RECURSIVE ResizeRows_MinColsStride(_, _, _, _, _, _, _)
ResizeRows_MinColsStride(s, y, minrows, mincols, x_ext_len, blank, newbuf) ==
    IF y >= minrows
    THEN Ok(newbuf)
    ELSE LET copy_start == mincols * y
             copy_end == (mincols * y) + mincols
         IN  IF ~SliceOk(s.buf, copy_start, copy_end)
             THEN Panic
             ELSE LET extended == newbuf \o Slice(s.buf, copy_start, copy_end)
                      curlen == Len(extended)
                  IN  ResizeRows_MinColsStride(s, y + 1, minrows, mincols, x_ext_len, blank,
                                               VecResize(extended, curlen + x_ext_len, blank))

\* The loop of resize over y in 0..minrows; newbuf is the vector built so far.
\* The result is Panic when a slice of the old buffer is out of range.
RECURSIVE ResizeRows(_, _, _, _, _, _, _)
ResizeRows(s, y, minrows, mincols, x_ext_len, blank, newbuf) ==
    IF y >= minrows
    THEN Ok(newbuf)
    ELSE LET copy_start == s.cols * y
             copy_end == (s.cols * y) + mincols
         IN  IF ~SliceOk(s.buf, copy_start, copy_end)
             THEN Panic
             ELSE LET extended == newbuf \o Slice(s.buf, copy_start, copy_end)
                      curlen == Len(extended)
                  IN  ResizeRows(s, y + 1, minrows, mincols, x_ext_len, blank,
                                 VecResize(extended, curlen + x_ext_len, blank))

\* Resize with the vertical extension sized by the old width.
Resize_OldColsExt(s, newcols, newrows, blank) ==
    LET oldrows == s.rows
        oldcols == s.cols
        minrows == Min(oldrows, newrows)
        mincols == Min(oldcols, newcols)
        x_ext_len == SaturatingSub(newcols, oldcols)
        y_ext_len == SaturatingSub(newrows, oldrows) * oldcols
        copied == ResizeRows(s, 0, minrows, mincols, x_ext_len, blank, <<>>)
    IN  IF copied.kind = "Panic"
        THEN Panic
        ELSE LET curlen == Len(copied.val)
             IN  Ok(CellBuffer(newcols, newrows,
                               VecResize(copied.val, curlen + y_ext_len, blank)))

\* Resize with the new rows filled with the default Cell instead of blank.
Resize_DefaultFill(s, newcols, newrows, blank) ==
    LET oldrows == s.rows
        oldcols == s.cols
        minrows == Min(oldrows, newrows)
        mincols == Min(oldcols, newcols)
        x_ext_len == SaturatingSub(newcols, oldcols)
        y_ext_len == SaturatingSub(newrows, oldrows) * newcols
        copied == ResizeRows(s, 0, minrows, mincols, x_ext_len, blank, <<>>)
    IN  IF copied.kind = "Panic"
        THEN Panic
        ELSE LET curlen == Len(copied.val)
             IN  Ok(CellBuffer(newcols, newrows,
                               VecResize(copied.val, curlen + y_ext_len, CellDefault)))

Resize(s, newcols, newrows, blank) ==
    LET oldrows == s.rows
        oldcols == s.cols
        minrows == Min(oldrows, newrows)
        mincols == Min(oldcols, newcols)
        x_ext_len == SaturatingSub(newcols, oldcols)
        y_ext_len == SaturatingSub(newrows, oldrows) * newcols
        copied == ResizeRows(s, 0, minrows, mincols, x_ext_len, blank, <<>>)
    IN  IF copied.kind = "Panic"
        THEN Panic
        ELSE LET curlen == Len(copied.val)
             IN  Ok(CellBuffer(newcols, newrows,
                               VecResize(copied.val, curlen + y_ext_len, blank)))

\* Deref: the flat view is the vector itself.
Deref(s) == s.buf

\* Index with the tuple read as (row, column).
Index_Swapped(s, x, y) == Expect(Get(s, y, x))

Index(s, x, y) == Expect(Get(s, x, y))

IndexMut(s, x, y) == Expect(GetMut(s, x, y))

(***************************************************************************)
(* The state machine                                                       *)
(***************************************************************************)
Dims == 0..MaxDim

FlatOffsets == 0..MaxCells

\* The dimensions new and resize are called with.
Shapes == {d \in Dims \X Dims : d[1] * d[2] <= MaxCells}

Install(s) ==
    /\ cols' = s.cols
    /\ rows' = s.rows
    /\ buf' = s.buf

Init ==
    /\ \E d \in Shapes :
        /\ cols = New(d[1], d[2]).cols
        /\ rows = New(d[1], d[2]).rows
        /\ buf = New(d[1], d[2]).buf
        /\ op = [name |-> "new", cols |-> d[1], rows |-> d[2]]
    /\ color = ColorDefault
    /\ byte = NotCalled

\* buf.get(x, y)
GetOp ==
    \E x \in Dims, y \in Dims :
        /\ op' = [name |-> "get", x |-> x, y |-> y, ret |-> Get(self, x, y)]
        /\ UNCHANGED <<cols, rows, buf, color, byte>>

\* if let Some(c) = buf.get_mut(x, y) { *c = v }
GetMutOp ==
    \E x \in Dims, y \in Dims, v \in Cells :
        LET r == GetMut(self, x, y)
        IN  /\ op' = [name |-> "get_mut", x |-> x, y |-> y, cell |-> v, ret |-> r]
            /\ buf' = IF r.kind = "Some" THEN WriteRef(buf, r.val, v) ELSE buf
            /\ UNCHANGED <<cols, rows, color, byte>>

\* buf[(x, y)]
IndexOp ==
    \E x \in Dims, y \in Dims :
        /\ op' = [name |-> "index", x |-> x, y |-> y, ret |-> Index(self, x, y)]
        /\ UNCHANGED <<cols, rows, buf, color, byte>>

\* buf[(x, y)] = v
IndexMutOp ==
    \E x \in Dims, y \in Dims, v \in Cells :
        LET r == IndexMut(self, x, y)
        IN  /\ op' = [name |-> "index_mut", x |-> x, y |-> y, cell |-> v, ret |-> r]
            /\ buf' = IF r.kind = "Ok" THEN WriteRef(buf, r.val, v) ELSE buf
            /\ UNCHANGED <<cols, rows, color, byte>>

\* buf.clear(blank)
ClearOp ==
    \E blank \in Cells :
        /\ op' = [name |-> "clear", cell |-> blank]
        /\ Install(Clear(self, blank))
        /\ UNCHANGED <<color, byte>>

\* buf.resize(newcols, newrows, blank)
ResizeOp ==
    \E d \in Shapes, blank \in Cells :
        LET newcols == d[1]
            newrows == d[2]
            r == Resize(self, newcols, newrows, blank)
        IN  /\ op' = [name |-> "resize", newcols |-> newcols, newrows |-> newrows,
                      cell |-> blank, oldcols |-> cols, oldrows |-> rows,
                      ret |-> IF r.kind = "Ok" THEN Unit ELSE Panic]
            /\ Install(IF r.kind = "Ok" THEN r.val ELSE self)
            /\ UNCHANGED <<color, byte>>

\* (*buf)[i], a read through the flat view
FlatReadOp ==
    \E i \in FlatOffsets :
        /\ op' = [name |-> "flat_read", i |-> i,
                  ret |-> IF i < Len(Deref(self)) THEN Ok(Deref(self)[i + 1]) ELSE Panic]
        /\ UNCHANGED <<cols, rows, buf, color, byte>>

\* (*buf)[i] = v, a write through the flat view
FlatWriteOp ==
    \E i \in FlatOffsets, v \in Cells :
        LET inrange == i < Len(Deref(self))
        IN  /\ op' = [name |-> "flat_write", i |-> i, cell |-> v,
                      ret |-> IF inrange THEN Unit ELSE Panic]
            /\ buf' = IF inrange THEN WriteRef(Deref(self), i, v) ELSE buf
            /\ UNCHANGED <<cols, rows, color, byte>>

Next ==
    \/ GetOp
    \/ GetMutOp
    \/ IndexOp
    \/ IndexMutOp
    \/ ClearOp
    \/ ResizeOp
    \/ FlatReadOp
    \/ FlatWriteOp

Spec == Init /\ [][Next]_vars

\* c.as_byte(), for every Color c
AsByteOp ==
    \E c \in Color :
        /\ color' = c
        /\ byte' = AsByte(c)
        /\ UNCHANGED <<cols, rows, buf, op>>

ColorInit ==
    /\ cols = New(0, 0).cols
    /\ rows = New(0, 0).rows
    /\ buf = New(0, 0).buf
    /\ op = [name |-> "new", cols |-> 0, rows |-> 0]
    /\ color = ColorDefault
    /\ byte = NotCalled

ColorNext == AsByteOp

ColorSpec == ColorInit /\ [][ColorNext]_vars

(***************************************************************************)
(* Properties                                                              *)
(***************************************************************************)
InRange(x, y) == x < cols /\ y < rows

CoordWrite == {"get_mut", "index_mut"}

\* C1: in every state reached from new by resize, clear, coordinate writes and
\* flat-view writes, the flat cell sequence has exactly cols * rows cells, and
\* it is empty when cols or rows is zero.
C1_SizeInvariant ==
    /\ Len(Deref(self)) = cols * rows
    /\ (cols = 0 \/ rows = 0) => Deref(self) = <<>>

\* A resize that changed both dimensions, growing the rows, of a buffer that had cells.
C1_Witness ==
    /\ op.name = "resize"
    /\ op.oldcols > 0
    /\ op.oldcols # cols
    /\ op.oldrows > 0
    /\ op.oldrows < rows
    /\ Len(Deref(self)) = cols * rows
    /\ Len(Deref(self)) > 0

\* C2: resize keeps, at every coordinate below the smaller of the old and new
\* width and the smaller of the old and new height, the Cell held there before.
C2_ResizePreservation ==
    [][op'.name = "resize" =>
        /\ op'.ret = Unit
        /\ \A x \in Dims, y \in Dims :
            (x < Min(cols, op'.newcols) /\ y < Min(rows, op'.newrows)) =>
                /\ Get(self, x, y).kind = "Some"
                /\ Get(self', x, y) = Get(self, x, y)]_vars

\* A resize that shrank the width and grew the height of a buffer with at least
\* two rows, and kept cells that differ from blank and from each other.
C2_Witness ==
    /\ op.name = "resize"
    /\ op.oldcols > cols
    /\ cols > 0
    /\ op.oldrows > 1
    /\ op.oldrows < rows
    /\ Get(self, 0, 1).kind = "Some"
    /\ Get(self, 0, 1).val # op.cell
    /\ Get(self, 0, 0) # Get(self, 0, 1)

\* C3: after resize every coordinate of the new grid outside the preserved
\* rectangle holds the blank Cell.
C3_ResizeFill ==
    op.name = "resize" =>
        /\ cols = op.newcols
        /\ rows = op.newrows
        /\ \A x \in Dims, y \in Dims :
            (/\ InRange(x, y)
             /\ (x >= Min(op.oldcols, op.newcols) \/ y >= Min(op.oldrows, op.newrows))) =>
                Get(self, x, y) = Some(op.cell)

\* A resize that grew both dimensions of a buffer whose kept cell differs from blank.
C3_Witness ==
    /\ op.name = "resize"
    /\ op.oldcols > 0
    /\ op.oldcols < cols
    /\ op.oldrows > 0
    /\ op.oldrows < rows
    /\ op.cell # CellDefault
    /\ Get(self, 0, 0).kind = "Some"
    /\ Get(self, 0, 0).val # op.cell
    /\ Get(self, cols - 1, 0) = Some(op.cell)
    /\ Get(self, 0, rows - 1) = Some(op.cell)

\* C4: in every reachable state get and get_mut return a cell exactly when
\* x < cols and y < rows and None otherwise, and never abort.
C4_Bounds ==
    /\ \A x \in Dims, y \in Dims :
        /\ Get(self, x, y).kind = IF InRange(x, y) THEN "Some" ELSE "None"
        /\ GetMut(self, x, y).kind = IF InRange(x, y) THEN "Some" ELSE "None"
    /\ op.name \in {"get", "get_mut"} =>
        op.ret.kind = IF InRange(op.x, op.y) THEN "Some" ELSE "None"

\* A get that returned None for x = cols on a buffer with cells.
C4_Witness ==
    /\ op.name = "get"
    /\ cols > 0
    /\ rows > 1
    /\ op.x = cols
    /\ op.y = 0
    /\ op.ret = None

\* C5: the cell at an in-range (x, y) is the cell at offset y * cols + x of the
\* flat view; a flat write at that offset is read back at (x, y), and a
\* coordinate write at (x, y) is read back at that offset.
C5_RowMajor ==
    /\ \A x \in Dims, y \in Dims :
        InRange(x, y) =>
            /\ (y * cols) + x < Len(Deref(self))
            /\ Get(self, x, y) = Some(Deref(self)[(y * cols) + x + 1])
    /\ (op.name = "flat_write" /\ op.ret = Unit) =>
        /\ cols > 0
        /\ Get(self, op.i % cols, op.i \div cols) = Some(op.cell)
    /\ (op.name \in CoordWrite /\ InRange(op.x, op.y)) =>
        /\ (op.y * cols) + op.x < Len(Deref(self))
        /\ Deref(self)[(op.y * cols) + op.x + 1] = op.cell

\* A flat write into the second row of a buffer at least two columns wide.
C5_Witness ==
    /\ op.name = "flat_write"
    /\ op.ret = Unit
    /\ cols > 1
    /\ op.i > cols
    /\ op.cell # CellDefault
    /\ Get(self, 0, 0) = Some(CellDefault)

\* C6: an in-range write through get_mut or index_mut is a point update: the
\* written Cell is read back at (x, y), every other in-range coordinate keeps
\* its Cell, and cols and rows are unchanged.
C6_PointUpdate ==
    [][(op'.name \in CoordWrite /\ op'.x < cols /\ op'.y < rows) =>
        /\ Get(self', op'.x, op'.y) = Some(op'.cell)
        /\ \A x \in Dims, y \in Dims :
            (InRange(x, y) /\ <<x, y>> # <<op'.x, op'.y>>) =>
                Get(self', x, y) = Get(self, x, y)
        /\ cols' = cols
        /\ rows' = rows]_vars

\* An index_mut write in the second row that left a different Cell beside it.
C6_Witness ==
    /\ op.name = "index_mut"
    /\ cols > 1
    /\ op.x = 1
    /\ op.y = 1
    /\ InRange(op.x, op.y)
    /\ Get(self, 1, 1) = Some(op.cell)
    /\ Get(self, 0, 1).kind = "Some"
    /\ Get(self, 0, 1).val # op.cell

\* C7: after clear(b) every cell equals b, cols, rows and the flat length are
\* unchanged, and a second clear(b) leaves the buffer as the first left it.
C7_Clear ==
    [][op'.name = "clear" =>
        /\ \A i \in 1..Len(buf') : buf'[i] = op'.cell
        /\ cols' = cols
        /\ rows' = rows
        /\ Len(buf') = Len(buf)
        /\ Clear(self', op'.cell) = self'
        /\ (op.name = "clear" /\ op.cell = op'.cell) => buf' = buf]_vars

\* A clear, with a Cell other than the default, of a buffer with several cells.
C7_Witness ==
    /\ op.name = "clear"
    /\ op.cell # CellDefault
    /\ Len(buf) > 3
    /\ \A i \in 1..Len(buf) : buf[i] = op.cell

\* C8: immediately after new(cols, rows) every cell is the default Cell:
\* character ' ', fg Default, bg Default, attrs Default.
C8_DefaultFill ==
    op.name = "new" =>
        /\ cols = op.cols
        /\ rows = op.rows
        /\ Len(buf) = op.cols * op.rows
        /\ \A i \in 1..Len(buf) :
            /\ buf[i].ch = " "
            /\ buf[i].fg = [tag |-> "Default"]
            /\ buf[i].bg = [tag |-> "Default"]
            /\ buf[i].attrs = "Default"

\* A new buffer with at least two columns and two rows.
C8_Witness ==
    /\ op.name = "new"
    /\ cols > 1
    /\ rows > 1
    /\ Len(buf) > 3

C10_ColorEncoding ==
    /\ byte # NotCalled =>
        /\ color = [tag |-> "Black"] => byte = Ok(0)
        /\ color = [tag |-> "Red"] => byte = Ok(1)
        /\ color = [tag |-> "Green"] => byte = Ok(2)
        /\ color = [tag |-> "Yellow"] => byte = Ok(3)
        /\ color = [tag |-> "Blue"] => byte = Ok(4)
        /\ color = [tag |-> "Magenta"] => byte = Ok(5)
        /\ color = [tag |-> "Cyan"] => byte = Ok(6)
        /\ color = [tag |-> "White"] => byte = Ok(7)
        /\ color.tag = "Byte" => byte = Ok(color.b)
        /\ color = [tag |-> "Default"] => byte = Panic
    /\ AsByte([tag |-> "Red"]) = AsByte([tag |-> "Byte", b |-> 1])
    /\ [tag |-> "Red"] # [tag |-> "Byte", b |-> 1]

\* as_byte called on Color::White.
C10_Witness ==
    /\ color = [tag |-> "White"]
    /\ byte = Ok(7)

====
